---- MODULE Spec2Model ----
(***************************************************************************)
(* Model of chainer_sentiment_analysis.ipynb: the notebook's code cells    *)
(* run top to bottom as one sequential script.  Every statement that talks *)
(* to the outside (dataset helper, local filesystem, SageMaker session,    *)
(* estimator, predictor) is one step; every such step either returns or    *)
(* raises.  An exception is handled nowhere except by the try/finally of   *)
(* the upload cell, so a raise ends the run.                               *)
(*                                                                         *)
(* Strings that the notebook manipulates (S3 URIs) are sequences of        *)
(* tokens; a token is a piece of text that no operation here splits.       *)
(***************************************************************************)
EXTENDS Integers, Sequences, FiniteSets, TLC

VARIABLES
    pc,            \* the statement the run is at; "done" and "halted" are final
    raised,        \* "none", or the call whose exception is propagating
    fs,            \* the paths that exist at or under /tmp/data
    s3,            \* the objects uploaded so far, as <<key_prefix, file name>>
    bucket,        \* the default bucket of sagemaker_session
    calls,         \* the external steps started so far, in order
    returned,      \* the external steps that have returned, in order
    train_input,   \* value returned by the first upload_data (<<>> = unbound)
    test_input,    \* value returned by the second upload_data
    vocab_input,   \* value returned by the third upload_data
    fit_inputs,    \* the argument fit was called with (<<>> = fit not called)
    job,           \* the training job: its name and status
    model_uri,     \* desc['ModelArtifacts']['S3ModelArtifacts']  (<<>> = unbound)
    output_data,   \* the notebook's variable output_data         (<<>> = unbound)
    retrieved,     \* the URI retrieve_output_from_s3 was given   (<<>> = not called)
    endpoint       \* "none", "InService", "Failed" or "Deleted"

vars == <<pc, raised, fs, s3, bucket, calls, returned, train_input, test_input,
          vocab_input, fit_inputs, job, model_uri, output_data, retrieved, endpoint>>

----------------------------------------------------------------------------
(* Bounds *)

\* longest training-job name enumerated, in tokens
MaxJobNameLen == 2

----------------------------------------------------------------------------
(* Paths of the upload cell *)

DataDir   == "/tmp/data"
TrainDir  == "/tmp/data/train_sentiment"
TestDir   == "/tmp/data/test_sentiment"
VocabDir  == "/tmp/data/vocab"
TrainFile == "/tmp/data/train_sentiment/train.npz"
TestFile  == "/tmp/data/test_sentiment/test.npz"
VocabFile == "/tmp/data/vocab/vocab.npy"

SavedFiles == {TrainFile, TestFile, VocabFile}

\* the files directly inside a directory
FilesIn(dir) ==
    IF dir = TrainDir THEN {TrainFile} \cap fs
    ELSE IF dir = TestDir THEN {TestFile} \cap fs
    ELSE IF dir = VocabDir THEN {VocabFile} \cap fs
    ELSE {}

\* what /tmp/data can look like when the upload cell starts: absent, or left
\* behind by something else on the machine
InitialFs == { {}, {DataDir}, {DataDir, TrainDir} }

TrainPrefix == <<"notebook", "/", "chainer_sentiment", "/", "train">>
TestPrefix  == <<"notebook", "/", "chainer_sentiment", "/", "test">>
VocabPrefix == <<"notebook", "/", "chainer_sentiment", "/", "vocab">>

----------------------------------------------------------------------------
(* S3 URIs *)

ModelTarGz  == <<"model", ".", "tar", ".", "gz">>
OutputTarGz == <<"output", ".", "tar", ".", "gz">>

\* sagemaker.Session() with no arguments: the default bucket
\* sagemaker-{region}-{account id}
Buckets == { <<"sagemaker", "-", "us-west-2", "-", "111122223333">>,
             <<"sagemaker", "-", "eu-west-1", "-", "444455556666">> }

\* Training job names are letters, digits and hyphens; fit() is given no
\* job_name, so the name is generated.  The words of the artifact file name
\* are among the tokens a name may contain; "." is not.
JobNameTokens == {"chainer", "model", "tar", "gz", "-"}

RECURSIVE SeqsUpTo(_, _)
SeqsUpTo(S, n) ==
    IF n = 0 THEN {<<>>}
    ELSE LET shorter == SeqsUpTo(S, n - 1)
         IN  shorter \cup { Append(s, x) : s \in shorter, x \in S }

JobNames == SeqsUpTo(JobNameTokens, MaxJobNameLen) \ {<<>>}

\* sagemaker_session.upload_data(path, key_prefix): the S3 location returned
UploadData(b, key_prefix) == <<"s3://">> \o b \o <<"/">> \o key_prefix

\* the estimator has no output_path: artifacts go to
\* s3://{default bucket}/{job name}/output/model.tar.gz
S3ModelArtifacts(b, name) ==
    <<"s3://">> \o b \o <<"/">> \o name \o <<"/", "output", "/">> \o ModelTarGz

\* a bug that rewrites the word instead of the whole file name
ReplaceWord(s, old, new) ==
    [i \in 1..Len(s) |-> IF s[i] = Head(old) THEN Head(new) ELSE s[i]]

\* str.replace(old, new): every non-overlapping occurrence, left to right
RECURSIVE Replace(_, _, _)
Replace(s, old, new) ==
    IF Len(s) < Len(old) THEN s
    ELSE IF SubSeq(s, 1, Len(old)) = old
         THEN new \o Replace(SubSeq(s, Len(old) + 1, Len(s)), old, new)
         ELSE <<Head(s)>> \o Replace(Tail(s), old, new)

----------------------------------------------------------------------------
(* How a step ends *)

\* an external call returns and the run goes on at statement next
Returns(call, next) ==
    /\ pc' = next
    /\ calls' = Append(calls, call)
    /\ returned' = Append(returned, call)
    /\ raised' = raised

\* an external call raises outside any try: the run ends
Raises(call) ==
    /\ pc' = "halted"
    /\ calls' = Append(calls, call)
    /\ returned' = returned
    /\ raised' = call

\* an external call raises inside the try of the upload cell
RaisesInTry(call) ==
    /\ pc' = "finally"
    /\ calls' = Append(calls, call)
    /\ returned' = returned
    /\ raised' = call

\* a local statement (filesystem, display) returns
LocalReturns(next) ==
    /\ pc' = next
    /\ UNCHANGED <<calls, returned, raised>>

\* a local statement raises
LocalRaises(what, next) ==
    /\ pc' = next
    /\ raised' = what
    /\ UNCHANGED <<calls, returned>>

----------------------------------------------------------------------------
Init ==
    /\ pc = "download"
    /\ raised = "none"
    /\ fs \in InitialFs
    /\ s3 = {}
    /\ bucket \in Buckets
    /\ calls = <<>>
    /\ returned = <<>>
    /\ train_input = <<>>
    /\ test_input = <<>>
    /\ vocab_input = <<>>
    /\ fit_inputs = <<>>
    /\ job = [name |-> <<>>, status |-> "none"]
    /\ model_uri = <<>>
    /\ output_data = <<>>
    /\ retrieved = <<>>
    /\ endpoint = "none"

----------------------------------------------------------------------------
(* Download cell *)

\* file_paths = dataset.download_dataset("stsa.binary")
DownloadDataset ==
    /\ pc = "download"
    /\ \/ Returns("download_dataset", "convert1")
       \/ Raises("download_dataset")
    /\ UNCHANGED <<fs, s3, bucket, train_input, test_input, vocab_input,
                   fit_inputs, job, model_uri, output_data, retrieved, endpoint>>

\* new_file_paths = dataset.get_stsa_dataset(file_paths)
GetStsaDataset1 ==
    /\ pc = "convert1"
    /\ \/ Returns("get_stsa_dataset", "convert2")
       \/ Raises("get_stsa_dataset")
    /\ UNCHANGED <<fs, s3, bucket, train_input, test_input, vocab_input,
                   fit_inputs, job, model_uri, output_data, retrieved, endpoint>>

\* train, test, vocab = dataset.get_stsa_dataset(file_paths), then the loop
\* that prints the first lines of file_paths[0]
GetStsaDataset2 ==
    /\ pc = "convert2"
    /\ \/ Returns("get_stsa_dataset", "mkdir_train")
       \/ Raises("get_stsa_dataset")
    /\ UNCHANGED <<fs, s3, bucket, train_input, test_input, vocab_input,
                   fit_inputs, job, model_uri, output_data, retrieved, endpoint>>

----------------------------------------------------------------------------
(* Upload cell: try ... finally *)

\* os.makedirs(dir): FileExistsError when dir exists, OSError when it cannot
\* be created; otherwise dir and its missing parents exist afterwards
Makedirs(at, dir, next) ==
    /\ pc = at
    /\ \/ /\ dir \notin fs
          /\ fs' = fs \cup {DataDir, dir}
          /\ LocalReturns(next)
       \/ /\ dir \in fs
          /\ fs' = fs
          /\ LocalRaises("makedirs", "finally")
       \/ /\ dir \notin fs
          /\ fs' = fs
          /\ LocalRaises("makedirs", "finally")
    /\ UNCHANGED <<s3, bucket, train_input, test_input, vocab_input,
                   fit_inputs, job, model_uri, output_data, retrieved, endpoint>>

MakedirsTrain == Makedirs("mkdir_train", TrainDir, "mkdir_test")
MakedirsTest  == Makedirs("mkdir_test", TestDir, "mkdir_vocab")
MakedirsVocab == Makedirs("mkdir_vocab", VocabDir, "save_train")

\* a bug that does not write the file where upload_data will look
SaveLost(at, file, next) ==
    /\ pc = at
    /\ fs' = fs
    /\ LocalReturns(next)
    /\ UNCHANGED <<s3, bucket, train_input, test_input, vocab_input,
                   fit_inputs, job, model_uri, output_data, retrieved, endpoint>>

\* np.savez(file, ...) and np.save(file, ...)
Save(at, file, next) ==
    /\ pc = at
    /\ \/ /\ fs' = fs \cup {file}
          /\ LocalReturns(next)
       \/ /\ fs' = fs
          /\ LocalRaises("save", "finally")
    /\ UNCHANGED <<s3, bucket, train_input, test_input, vocab_input,
                   fit_inputs, job, model_uri, output_data, retrieved, endpoint>>

SaveTrain == Save("save_train", TrainFile, "save_test")
SaveTest  == Save("save_test", TestFile, "save_vocab")
SaveVocab == Save("save_vocab", VocabFile, "upload_train")

\* train_input = sagemaker_session.upload_data(path=..., key_prefix=...)
UploadTrain ==
    /\ pc = "upload_train"
    /\ \/ /\ s3' = s3 \cup { <<TrainPrefix, f>> : f \in FilesIn(TrainDir) }
          /\ train_input' = UploadData(bucket, TrainPrefix)
          /\ Returns("upload_train", "upload_test")
       \/ /\ UNCHANGED <<s3, train_input>>
          /\ RaisesInTry("upload_train")
    /\ UNCHANGED <<fs, bucket, test_input, vocab_input,
                   fit_inputs, job, model_uri, output_data, retrieved, endpoint>>

\* test_input = sagemaker_session.upload_data(path=..., key_prefix=...)
UploadTest ==
    /\ pc = "upload_test"
    /\ \/ /\ s3' = s3 \cup { <<TestPrefix, f>> : f \in FilesIn(TestDir) }
          /\ test_input' = UploadData(bucket, TestPrefix)
          /\ Returns("upload_test", "upload_vocab")
       \/ /\ UNCHANGED <<s3, test_input>>
          /\ RaisesInTry("upload_test")
    /\ UNCHANGED <<fs, bucket, train_input, vocab_input,
                   fit_inputs, job, model_uri, output_data, retrieved, endpoint>>

\* vocab_input = sagemaker_session.upload_data(path=..., key_prefix=...)
UploadVocab ==
    /\ pc = "upload_vocab"
    /\ \/ /\ s3' = s3 \cup { <<VocabPrefix, f>> : f \in FilesIn(VocabDir) }
          /\ vocab_input' = UploadData(bucket, VocabPrefix)
          /\ Returns("upload_vocab", "finally")
       \/ /\ UNCHANGED <<s3, vocab_input>>
          /\ RaisesInTry("upload_vocab")
    /\ UNCHANGED <<fs, bucket, train_input, test_input,
                   fit_inputs, job, model_uri, output_data, retrieved, endpoint>>

\* a bug that swallows the exception of the try block
FinallySwallow ==
    /\ pc = "finally"
    /\ fs' = {}
    /\ pc' = "fit"
    /\ UNCHANGED <<raised, s3, bucket, calls, returned, train_input, test_input,
                   vocab_input, fit_inputs, job, model_uri, output_data,
                   retrieved, endpoint>>

\* finally: shutil.rmtree('/tmp/data').  It runs however the try block ended;
\* afterwards a pending exception goes on propagating.  rmtree itself raises
\* when /tmp/data does not exist, and that exception replaces a pending one.
Finally ==
    /\ pc = "finally"
    /\ \/ /\ DataDir \in fs
          /\ fs' = {}
          /\ pc' = IF raised = "none" THEN "fit" ELSE "halted"
          /\ raised' = raised
       \/ /\ DataDir \notin fs
          /\ fs' = fs
          /\ pc' = "halted"
          /\ raised' = "rmtree"
    /\ UNCHANGED <<s3, bucket, calls, returned, train_input, test_input,
                   vocab_input, fit_inputs, job, model_uri, output_data,
                   retrieved, endpoint>>

----------------------------------------------------------------------------
(* Training cell *)

\* a bug that starts the job without waiting for it (fit(..., wait=False))
FitNoWait ==
    /\ pc = "fit"
    /\ \E name \in JobNames :
          job' = [name |-> name, status |-> "InProgress"]
    /\ fit_inputs' = [train |-> train_input, test |-> test_input,
                      vocab |-> vocab_input]
    /\ Returns("fit", "describe")
    /\ UNCHANGED <<fs, s3, bucket, train_input, test_input, vocab_input,
                   model_uri, output_data, retrieved, endpoint>>

\* a bug that binds the channels to the wrong uploads
FitSwapped ==
    /\ pc = "fit"
    /\ \E name \in JobNames :
          job' = [name |-> name, status |-> "InProgress"]
    /\ fit_inputs' = [train |-> test_input, test |-> train_input,
                      vocab |-> vocab_input]
    /\ pc' = "fit_wait"
    /\ calls' = Append(calls, "fit")
    /\ UNCHANGED <<returned, raised>>
    /\ UNCHANGED <<fs, s3, bucket, train_input, test_input, vocab_input,
                   model_uri, output_data, retrieved, endpoint>>

\* chainer_estimator.fit({'train': ..., 'test': ..., 'vocab': ...}), first
\* half: the training job is created under a generated name, or the call
\* raises before any job exists
FitSubmit ==
    /\ pc = "fit"
    /\ \/ /\ \E name \in JobNames :
                job' = [name |-> name, status |-> "InProgress"]
          /\ fit_inputs' = [train |-> train_input, test |-> test_input,
                            vocab |-> vocab_input]
          /\ pc' = "fit_wait"
          /\ calls' = Append(calls, "fit")
          /\ UNCHANGED <<returned, raised>>
       \/ /\ fit_inputs' = [train |-> train_input, test |-> test_input,
                            vocab |-> vocab_input]
          /\ job' = job
          /\ Raises("fit")
    /\ UNCHANGED <<fs, s3, bucket, train_input, test_input, vocab_input,
                   model_uri, output_data, retrieved, endpoint>>

\* fit, second half: fit blocks until the job has ended; it returns when the
\* job completed and raises when the job failed or was stopped
FitWait ==
    /\ pc = "fit_wait"
    /\ \/ /\ job' = [job EXCEPT !.status = "Completed"]
          /\ pc' = "describe"
          /\ returned' = Append(returned, "fit")
          /\ UNCHANGED <<calls, raised>>
       \/ /\ \E st \in {"Failed", "Stopped"} :
                job' = [job EXCEPT !.status = st]
          /\ pc' = "halted"
          /\ raised' = "fit"
          /\ UNCHANGED <<calls, returned>>
    /\ UNCHANGED <<fs, s3, bucket, train_input, test_input, vocab_input,
                   fit_inputs, model_uri, output_data, retrieved, endpoint>>

----------------------------------------------------------------------------
(* Output retrieval cell *)

\* desc = sagemaker_session.sagemaker_client.describe_training_job(
\*            TrainingJobName=chainer_estimator.latest_training_job.name)
DescribeTrainingJob ==
    /\ pc = "describe"
    /\ \/ /\ model_uri' = S3ModelArtifacts(bucket, job.name)
          /\ Returns("describe_training_job", "output_data")
       \/ /\ model_uri' = model_uri
          /\ Raises("describe_training_job")
    /\ UNCHANGED <<fs, s3, bucket, train_input, test_input, vocab_input,
                   fit_inputs, job, output_data, retrieved, endpoint>>

\* output_data = desc['ModelArtifacts']['S3ModelArtifacts']
\*                   .replace('model.tar.gz', 'output.tar.gz')
DeriveOutputData ==
    /\ pc = "output_data"
    /\ output_data' = Replace(model_uri, ModelTarGz, OutputTarGz)
    /\ LocalReturns("retrieve")
    /\ UNCHANGED <<fs, s3, bucket, train_input, test_input, vocab_input,
                   fit_inputs, job, model_uri, retrieved, endpoint>>

\* retrieve_output_from_s3(output_data, 'output/sentiment')
RetrieveOutput ==
    /\ pc = "retrieve"
    /\ retrieved' = output_data
    /\ \/ Returns("retrieve_output_from_s3", "display")
       \/ Raises("retrieve_output_from_s3")
    /\ UNCHANGED <<fs, s3, bucket, train_input, test_input, vocab_input,
                   fit_inputs, job, model_uri, output_data, endpoint>>

\* a bug that puts the cleanup cell before the deployment
DisplayThenCleanup ==
    /\ pc = "display"
    /\ LocalReturns("delete")
    /\ UNCHANGED <<fs, s3, bucket, train_input, test_input, vocab_input,
                   fit_inputs, job, model_uri, output_data, retrieved, endpoint>>

\* Image(filename="output/sentiment/accuracy.png", ...), Image(... loss.png),
\* display(accuracy_graph, loss_graph)
DisplayPlots ==
    /\ pc = "display"
    /\ \/ LocalReturns("deploy")
       \/ LocalRaises("display", "halted")
    /\ UNCHANGED <<fs, s3, bucket, train_input, test_input, vocab_input,
                   fit_inputs, job, model_uri, output_data, retrieved, endpoint>>

----------------------------------------------------------------------------
(* Deployment, prediction and cleanup cells *)

\* predictor = chainer_estimator.deploy(initial_instance_count=1, ...):
\* returns once the endpoint is in service; raises with no endpoint created
\* or with an endpoint whose creation failed
Deploy ==
    /\ pc = "deploy"
    /\ \/ /\ endpoint' = "InService"
          /\ Returns("deploy", "predict1")
       \/ /\ endpoint' \in {"none", "Failed"}
          /\ Raises("deploy")
    /\ UNCHANGED <<fs, s3, bucket, train_input, test_input, vocab_input,
                   fit_inputs, job, model_uri, output_data, retrieved>>

\* predictions = predictor.predict(sentences)
Predict(at, next) ==
    /\ pc = at
    /\ \/ Returns("predict", next)
       \/ Raises("predict")
    /\ UNCHANGED <<fs, s3, bucket, train_input, test_input, vocab_input,
                   fit_inputs, job, model_uri, output_data, retrieved, endpoint>>

\* the sample sentences
Predict1 == Predict("predict1", "open_test")

\* with open(file_paths[1], 'r') as f: sentences = f.readlines(2000) ...
OpenTestFile ==
    /\ pc = "open_test"
    /\ \/ LocalReturns("predict2")
       \/ LocalRaises("open", "halted")
    /\ UNCHANGED <<fs, s3, bucket, train_input, test_input, vocab_input,
                   fit_inputs, job, model_uri, output_data, retrieved, endpoint>>

\* the test sentences, inside the with block and once more after it
Predict2 == Predict("predict2", "predict3")
Predict3 == Predict("predict3", "delete")

\* a bug that reports the endpoint deleted without deleting it
DeleteEndpointNoop ==
    /\ pc = "delete"
    /\ endpoint' = endpoint
    /\ Returns("delete_endpoint", "done")
    /\ UNCHANGED <<fs, s3, bucket, train_input, test_input, vocab_input,
                   fit_inputs, job, model_uri, output_data, retrieved>>

\* chainer_estimator.delete_endpoint()
DeleteEndpoint ==
    /\ pc = "delete"
    /\ \/ /\ endpoint' = "Deleted"
          /\ Returns("delete_endpoint", "done")
       \/ /\ endpoint' = endpoint
          /\ Raises("delete_endpoint")
    /\ UNCHANGED <<fs, s3, bucket, train_input, test_input, vocab_input,
                   fit_inputs, job, model_uri, output_data, retrieved>>

----------------------------------------------------------------------------
Next ==
    \/ DownloadDataset
    \/ GetStsaDataset1
    \/ GetStsaDataset2
    \/ MakedirsTrain
    \/ MakedirsTest
    \/ MakedirsVocab
    \/ SaveTrain
    \/ SaveTest
    \/ SaveVocab
    \/ UploadTrain
    \/ UploadTest
    \/ UploadVocab
    \/ Finally
    \/ FitSubmit
    \/ FitWait
    \/ DescribeTrainingJob
    \/ DeriveOutputData
    \/ RetrieveOutput
    \/ DisplayPlots
    \/ Deploy
    \/ Predict1
    \/ OpenTestFile
    \/ Predict2
    \/ Predict3
    \/ DeleteEndpoint

Spec == Init /\ [][Next]_vars

----------------------------------------------------------------------------
(* Vocabulary of the properties *)

Range(s) == { s[i] : i \in DOMAIN s }
Count(x, s) == Cardinality({ i \in DOMAIN s : s[i] = x })
IsPrefix(s, t) == Len(s) <= Len(t) /\ SubSeq(t, 1, Len(s)) = s
Last(s) == s[Len(s)]

Uploads == {"upload_train", "upload_test", "upload_vocab"}

SdkCalls == Uploads \cup {"fit", "describe_training_job", "deploy", "predict",
                          "delete_endpoint"}

\* the external steps of a complete run: download, conversion (twice), the
\* three uploads, fit, the artifact download (job description, then the
\* retrieval), deployment, the three prediction requests, deletion
FixedOrder ==
    <<"download_dataset", "get_stsa_dataset", "get_stsa_dataset",
      "upload_train", "upload_test", "upload_vocab", "fit",
      "describe_training_job", "retrieve_output_from_s3", "deploy",
      "predict", "predict", "predict", "delete_endpoint">>

RunEnded == pc \in {"done", "halted"}

AllUploadsReturned == Uploads \subseteq Range(returned)

----------------------------------------------------------------------------
(* C1 *)

\* C1: the external steps are started in the fixed order download,
\* conversion, upload, fit, artifact download, deployment, prediction,
\* deletion, and a step is started only when every step started before it
\* has returned.
C1_FixedOrder ==
    [][calls' # calls =>
          /\ returned = calls
          /\ Len(calls) < Len(FixedOrder)
          /\ calls' = Append(calls, FixedOrder[Len(calls) + 1])
          /\ IsPrefix(returned', calls')]_vars

C1_Witness == pc = "done" /\ calls = FixedOrder /\ returned = FixedOrder

----------------------------------------------------------------------------
(* C2 *)

\* C2 as stated: a run in which deploy returned never ends without
\* delete_endpoint having been called, nor with the endpoint still existing.
C2_Original ==
    (RunEnded /\ "deploy" \in Range(returned)) =>
        /\ "delete_endpoint" \in Range(calls)
        /\ endpoint # "InService"

\* C2, amended: after deploy returned, delete_endpoint is called exactly when
\* the three predict calls and the reading of the test file have returned,
\* and the endpoint is gone when delete_endpoint returns.  A run that a
\* predict call, the file read or delete_endpoint ends by raising leaves the
\* endpoint in service.
C2_Amended ==
    "deploy" \in Range(returned) =>
        /\ pc = "done" =>
              /\ "delete_endpoint" \in Range(returned)
              /\ endpoint = "Deleted"
        /\ "delete_endpoint" \in Range(calls) => 
              Count("predict", returned) = Count("predict", FixedOrder)
        /\ pc = "halted" =>
              /\ raised \in {"predict", "open", "delete_endpoint"}
              /\ endpoint = "InService"
              /\ raised # "delete_endpoint" => "delete_endpoint" \notin Range(calls)

C2_Witness ==
    /\ pc = "done"
    /\ "deploy" \in Range(returned)
    /\ "delete_endpoint" \in Range(returned)
    /\ endpoint = "Deleted"

----------------------------------------------------------------------------
(* C3 *)

\* C3: once an SDK call has raised, its exception stays the pending one, no
\* external step is started again or afterwards, and the only statement that
\* still runs is the finally block, which removes /tmp/data and ends the run;
\* a raising step leaves the run either ended or in that finally block.
C3_Unhandled ==
    [][/\ raised \in SdkCalls =>
             /\ pc = "finally"
             /\ pc' = "halted"
             /\ fs' = {}
             /\ UNCHANGED <<raised, calls, returned, s3, bucket, train_input,
                            test_input, vocab_input, fit_inputs, job, model_uri,
                            output_data, retrieved, endpoint>>
       /\ (raised = "none" /\ raised' \in SdkCalls) =>
             /\ pc' = IF raised' \in Uploads THEN "finally" ELSE "halted"
             /\ Last(calls') = raised'
             /\ Count(raised', calls') = Count(raised', returned') + 1]_vars

C3_Witness ==
    /\ pc = "halted"
    /\ raised = "upload_test"
    /\ fs = {}
    /\ calls = SubSeq(FixedOrder, 1, Len(calls))
    /\ Last(calls) = "upload_test"

----------------------------------------------------------------------------
(* C4 *)

\* C4: fit is called at most once, and only after the three uploads have
\* returned; it is called with exactly the channels train, test and vocab,
\* each bound to the S3 location upload_data returned for the directory
\* holding train.npz, test.npz and vocab.npy respectively; a run that got
\* past the upload cell has called it.
C4_FitInputs ==
    /\ Count("fit", calls) <= 1
    /\ "fit" \in Range(calls) =>
          /\ AllUploadsReturned
          /\ DOMAIN fit_inputs = {"train", "test", "vocab"}
          /\ fit_inputs.train = UploadData(bucket, TrainPrefix)
          /\ fit_inputs.test = UploadData(bucket, TestPrefix)
          /\ fit_inputs.vocab = UploadData(bucket, VocabPrefix)
          /\ fit_inputs.train = train_input
          /\ fit_inputs.test = test_input
          /\ fit_inputs.vocab = vocab_input
          /\ <<TrainPrefix, TrainFile>> \in s3
          /\ <<TestPrefix, TestFile>> \in s3
          /\ <<VocabPrefix, VocabFile>> \in s3
    /\ "fit" \notin Range(calls) =>
          /\ job.status = "none"
          /\ pc \notin {"fit_wait", "describe", "output_data", "retrieve",
                        "display", "deploy", "predict1", "open_test", "predict2",
                        "predict3", "delete", "done"}

C4_Witness ==
    /\ "fit" \in Range(returned)
    /\ job.status = "Completed"
    /\ fit_inputs.train = UploadData(bucket, TrainPrefix)

----------------------------------------------------------------------------
(* C5 *)

----------------------------------------------------------------------------
(* C6 *)

UploadStarts == calls' # calls /\ Last(calls') \in Uploads

DataRemoved == DataDir \in fs /\ DataDir \notin fs'

\* C6 as stated: an upload starts only when the three files exist under
\* /tmp/data, and /tmp/data is removed only when every upload has returned or
\* an upload has raised.
C6_Original ==
    [][/\ UploadStarts => SavedFiles \subseteq fs
       /\ DataRemoved => (AllUploadsReturned \/ raised \in Uploads)]_vars

\* C6, amended: an upload starts only when the three files exist under
\* /tmp/data, it leaves them in place, and when it returns its file is in S3;
\* /tmp/data is removed only by the finally block, after every upload has
\* returned or after a statement of the try block (makedirs, save or an
\* upload) has raised, and after a raise the run ends without starting an
\* upload.
C6_Amended ==
    [][/\ UploadStarts =>
             /\ SavedFiles \subseteq fs
             /\ fs' = fs
       /\ (returned' # returned /\ Last(returned') = "upload_train") =>
             <<TrainPrefix, TrainFile>> \in s3'
       /\ (returned' # returned /\ Last(returned') = "upload_test") =>
             <<TestPrefix, TestFile>> \in s3'
       /\ (returned' # returned /\ Last(returned') = "upload_vocab") =>
             <<VocabPrefix, VocabFile>> \in s3'
       /\ DataRemoved =>
             /\ pc = "finally"
             /\ \/ AllUploadsReturned /\ raised = "none" /\ pc' = "fit"
                \/ /\ raised \in Uploads \cup {"makedirs", "save"}
                   /\ ~AllUploadsReturned
                   /\ pc' = "halted"]_vars

C6_Witness ==
    /\ pc = "fit"
    /\ AllUploadsReturned
    /\ fs = {}
    /\ Cardinality(s3) = Cardinality(SavedFiles)

----------------------------------------------------------------------------
(* C7 *)

EndsWith(s, suffix) ==
    /\ Len(s) >= Len(suffix)
    /\ SubSeq(s, Len(s) - Len(suffix) + 1, Len(s)) = suffix

\* s with its last Len(suffix) tokens replaced by other
WithFileName(s, suffix, other) ==
    SubSeq(s, 1, Len(s) - Len(suffix)) \o other

\* C7: the URI given to retrieve_output_from_s3 is the model artifact URI of
\* the training job with only its final file name model.tar.gz changed to
\* output.tar.gz: bucket and key prefix are those of the model artifacts.
C7_OutputUri ==
    /\ output_data # <<>> =>
          /\ EndsWith(model_uri, ModelTarGz)
          /\ output_data = WithFileName(model_uri, ModelTarGz, OutputTarGz)
    /\ retrieved # <<>> =>
          /\ EndsWith(model_uri, ModelTarGz)
          /\ retrieved = WithFileName(model_uri, ModelTarGz, OutputTarGz)

C7_Witness ==
    /\ "retrieve_output_from_s3" \in Range(returned)
    /\ job.name = <<"model", "tar">>
    /\ retrieved = <<"s3://">> \o bucket \o <<"/", "model", "tar", "/", "output", "/">>
                      \o OutputTarGz

====
